---- MODULE Spec2Model ----
(***************************************************************************)
(* Model of the athlete mention resolver of example-player-fuzzing:        *)
(* find_team_mentions and find_player_mentions_fuzzy of                    *)
(* src/04_fuzzy_athlete_with_team.py, driven by run_test_cases.            *)
(*                                                                         *)
(* Python strings are TLA+ strings, handled character by character         *)
(* (lower(), the substring test "x in s", re.findall(r"\b\w+\b"), split()).*)
(* Python dicts are functions whose DOMAIN is the key set, Python sets are *)
(* sets, lists and tuples are sequences.                                   *)
(***************************************************************************)
EXTENDS Integers, Sequences, FiniteSets, TLC

(***************************************************************************)
(* Strings                                                                 *)
(***************************************************************************)
UpperAlpha == "ABCDEFGHIJKLMNOPQRSTUVWXYZ"
LowerAlpha == "abcdefghijklmnopqrstuvwxyz"
Digits == "0123456789"

CharAt(s, i) == SubSeq(s, i, i)

\* Python: needle in hay
Contains(hay, needle) ==
    \E i \in 1..(Len(hay) - Len(needle) + 1) :
        SubSeq(hay, i, i + Len(needle) - 1) = needle

LowerChar(c) ==
    IF \E k \in 1..Len(UpperAlpha) : CharAt(UpperAlpha, k) = c
    THEN CharAt(LowerAlpha, CHOOSE k \in 1..Len(UpperAlpha) : CharAt(UpperAlpha, k) = c)
    ELSE c

RECURSIVE LowerFrom(_, _)
LowerFrom(s, i) ==
    IF i > Len(s) THEN "" ELSE LowerChar(CharAt(s, i)) \o LowerFrom(s, i + 1)

\* Python: s.lower()
Lower(s) == LowerFrom(s, 1)

\* the regular expression class \w
IsWordChar(c) ==
    \/ Contains(LowerAlpha, c)
    \/ Contains(UpperAlpha, c)
    \/ Contains(Digits, c)
    \/ c = "_"

RECURSIVE RunsFrom(_, _, _, _)
\* the maximal runs of the characters of s satisfying (word = TRUE: \w,
\* word = FALSE: non-whitespace), from position i, cur being the run so far
RunsFrom(s, i, cur, word) ==
    IF i > Len(s)
    THEN IF cur = "" THEN << >> ELSE <<cur>>
    ELSE LET c == CharAt(s, i)
             inRun == IF word THEN IsWordChar(c) ELSE c # " "
         IN IF inRun
            THEN RunsFrom(s, i + 1, cur \o c, word)
            ELSE (IF cur = "" THEN << >> ELSE <<cur>>) \o RunsFrom(s, i + 1, "", word)

\* Python: re.findall(r"\b\w+\b", s)
FindWords(s) == RunsFrom(s, 1, "", TRUE)

\* Python: s.split()
Split(s) == RunsFrom(s, 1, "", FALSE)

Range(seq) == {seq[i] : i \in DOMAIN seq}

Max(a, b) == IF a >= b THEN a ELSE b

Min(a, b) == IF a <= b THEN a ELSE b


(***************************************************************************)
(* Dicts and lists                                                         *)
(***************************************************************************)
\* Python: d.get(k, default)
Get(d, k, default) == IF k \in DOMAIN d THEN d[k] ELSE default

\* Python: d[k] = v
Put(d, k, v) == [y \in (DOMAIN d) \cup {k} |-> IF y = k THEN v ELSE d[y]]

\* Python: seq[:n], negative n counting from the end
SliceTo(seq, n) ==
    IF n >= 0 THEN SubSeq(seq, 1, Min(n, Len(seq)))
    ELSE SubSeq(seq, 1, Max(0, Len(seq) + n))

RECURSIVE InsertByScore(_, _)
\* e = <<name, score, ...>> put behind every element whose score is >= its own
InsertByScore(seq, e) ==
    IF seq = << >> THEN <<e>>
    ELSE IF seq[1][2] >= e[2] THEN <<seq[1]>> \o InsertByScore(Tail(seq), e)
    ELSE <<e>> \o seq

RECURSIVE SortedByScore(_)
\* Python: sorted(seq, key=lambda x: x[1], reverse=True); the sort is stable
SortedByScore(seq) ==
    IF seq = << >> THEN << >>
    ELSE InsertByScore(SortedByScore(SubSeq(seq, 1, Len(seq) - 1)), seq[Len(seq)])

(***************************************************************************)
(* The data of the test drivers                                            *)
(***************************************************************************)
\* team_info entries of the driver
TeamData ==
    [ LAL |-> [full_name |-> "Los Angeles Lakers", location |-> "Los Angeles",
               nickname |-> "Lakers",
               alternates |-> <<"LAL", "The Lakers", "LA Lakers", "The LA Lakers">>],
      LAC |-> [full_name |-> "Los Angeles Clippers", location |-> "Los Angeles",
               nickname |-> "Clippers",
               alternates |-> <<"LAC", "The Clippers", "LA Clippers", "The LA Clippers">>],
      PHI |-> [full_name |-> "Philadelphia 76ers", location |-> "Philadelphia",
               nickname |-> "76ers",
               alternates |-> <<"PHI", "The 76ers", "Sixers", "The Sixers">>],
      NYK |-> [full_name |-> "New York Knicks", location |-> "New York",
               nickname |-> "Knicks",
               alternates |-> <<"NYK", "The Knicks">>],
      GSW |-> [full_name |-> "Golden State Warriors", location |-> "Golden State",
               nickname |-> "Warriors",
               alternates |-> <<"GSW", "The Warriors", "Golden State", "Dubs">>] ]

TeamTable(codes) == [c \in codes |-> TeamData[c]]

\* the team tables a run is given: the five teams, and the same without LAL
TeamTables == {TeamTable({"LAL", "LAC", "PHI", "NYK", "GSW"}),
               TeamTable({"LAC", "PHI", "NYK", "GSW"})}

\* the rosters a run is given (all_players of the drivers, cut down; the two
\* further Currys make a surname shared by three players)
RosterDuo == <<"LeBron James", "James Harden">>

RosterCurry == <<"Stephen Curry", "LeBron James", "Seth Curry", "James Harden",
                 "Anthony Davis", "Dell Curry">>

RosterBig == <<"LeBron James", "Stephen Curry", "Kevin Durant",
               "Giannis Antetokounmpo", "James Harden", "Anthony Davis",
               "Joel Embiid", "Jayson Tatum", "Damian Lillard", "Jimmy Butler",
               "Kawhi Leonard", "Kyrie Irving">>

\* a roster with no player
RosterNone == << >>

Rosters == {RosterNone, RosterDuo, RosterCurry, RosterBig}

NameUniverse == UNION {Range(r) : r \in Rosters}

\* player_teams of the driver, for the teams of TeamData
PlayerTeamsKnown ==
    [ n \in {"LeBron James", "Anthony Davis", "Stephen Curry", "James Harden",
             "Joel Embiid", "Kawhi Leonard", "Seth Curry"} |->
        CASE n \in {"LeBron James", "Anthony Davis"} -> "LAL"
          [] n = "Stephen Curry" -> "GSW"
          [] n \in {"James Harden", "Joel Embiid", "Seth Curry"} -> "PHI"
          [] n = "Kawhi Leonard" -> "LAC" ]

\* the same with a player whose team code no team table holds
PlayerTeamsDangling == Put(PlayerTeamsKnown, "Kevin Durant", "PHX")

PlayerTeamMaps == {PlayerTeamsKnown, PlayerTeamsDangling}

\* the tweets resolved
TweetJames == "James scored 30 in the Lakers win over the Knicks"
TweetLosAngeles == "Big night in Los Angeles"
TweetNull == "just watched a great game with no particular star players"
TweetFullName == "LeBron James and Anthony Davis dominate"
TweetUnderscore == "_James Harden_ for MVP"
TweetCurry == "Curry hits a three for the Warriors"
TweetCurryAlone == "Curry with another deep three! He's on fire tonight."
TweetDerby == "Clippers fall to the Lakers in Los Angeles"
TweetBadCall == "what a bad call"
TweetBuckets == "Jimmy, Buckets and LeBron James"
TweetEmpty == ""

Texts == {TweetJames, TweetLosAngeles, TweetNull, TweetFullName,
          TweetUnderscore, TweetCurry, TweetCurryAlone, TweetDerby,
          TweetBadCall, TweetBuckets, TweetEmpty}

(***************************************************************************)
(* String results shared by every call, computed once                      *)
(***************************************************************************)
TeamStrings ==
    UNION {{c, TeamData[c].full_name, TeamData[c].location, TeamData[c].nickname}
           \cup Range(TeamData[c].alternates) : c \in DOMAIN TeamData}

KnownStrings == Texts \cup NameUniverse \cup TeamStrings

LowerMemo == [s \in KnownStrings |-> Lower(s)]

\* Python: s.lower()
lower(s) == IF s \in DOMAIN LowerMemo THEN LowerMemo[s] ELSE Lower(s)

SplitMemo == [s \in KnownStrings |-> Split(s)]

\* Python: s.split()
split(s) == IF s \in DOMAIN SplitMemo THEN SplitMemo[s] ELSE Split(s)

WordsMemo == [t \in Texts |-> FindWords(lower(t))]

\* words = re.findall(r"\b\w+\b", tweet_text.lower())
words_of(tweet_text) ==
    IF tweet_text \in DOMAIN WordsMemo THEN WordsMemo[tweet_text]
    ELSE FindWords(lower(tweet_text))

\* the nicknames the code registers for a roster name
NicknamesOf(name) ==
    CASE name = "LeBron James" -> {"king", "lebron", "lbj", "king james"}
      [] name = "Giannis Antetokounmpo" -> {"greek", "freak", "greek freak", "giannis"}
      [] name = "James Harden" -> {"beard", "the beard"}
      [] name = "Kevin Durant" -> {"kd", "slim reaper", "durantula"}
      [] name = "Stephen Curry" -> {"steph", "chef curry"}
      [] name = "Anthony Davis" -> {"ad", "the brow"}
      [] name = "Russell Westbrook" -> {"russ", "brodie", "westbrook"}
      [] name = "Jimmy Butler" -> {"jimmy buckets"}
      [] name = "Kyrie Irving" -> {"kyrie", "uncle drew"}
      [] OTHER -> {}

Patterns ==
    {lower(t) : t \in TeamStrings} \cup {"lakers", "clippers"}
    \cup UNION {NicknamesOf(n) : n \in NameUniverse}

SubstringMemo == [t \in Texts |-> {q \in Patterns : Contains(lower(t), q)}]

\* Python: needle in tweet_text.lower()
InLowerTweet(needle, tweet_text) ==
    IF tweet_text \in DOMAIN SubstringMemo /\ needle \in Patterns
    THEN needle \in SubstringMemo[tweet_text]
    ELSE Contains(lower(tweet_text), needle)

\* name.split()[-1].lower()
last_name_of(name) == Lower(split(name)[Len(split(name))])

\* name.split()[0].lower()
first_name_of(name) == Lower(split(name)[1])

LastNameMemo == [n \in NameUniverse |-> last_name_of(n)]

FirstNameMemo == [n \in NameUniverse |-> first_name_of(n)]

last_name(name) == IF name \in DOMAIN LastNameMemo THEN LastNameMemo[name] ELSE last_name_of(name)

first_name(name) == IF name \in DOMAIN FirstNameMemo THEN FirstNameMemo[name] ELSE first_name_of(name)

(***************************************************************************)
(* The similarity scorer (rapidfuzz, outside the repository): a scorer is  *)
(* deterministic, bounded by 0 and 100, and grows with the tokens the two  *)
(* strings share.  token_set_ratio gives 100 when one token set holds the  *)
(* other; partial_token_set_ratio gives 100 as soon as a token is shared.  *)
(* "raising" is a scorer that throws.                                      *)
(***************************************************************************)
Scorers == {"token_set_ratio", "partial_token_set_ratio", "raising"}

Tokens(s) == Range(split(s))

Score(scorer, query, choice) ==
    LET A == Tokens(query)
        B == Tokens(choice)
    IN IF A = {} \/ B = {} THEN 0
       ELSE IF A \cap B # {} /\ (A \subseteq B \/ B \subseteq A) THEN 100
       ELSE IF scorer = "token_set_ratio"
            THEN (IF A \cap B # {} THEN 59 ELSE 25)
            ELSE (IF A \cap B # {} THEN 100 ELSE 35)

ScoreMemo ==
    [k \in (Scorers \ {"raising"}) \X Texts \X NameUniverse |-> Score(k[1], k[2], k[3])]

score_of(scorer, query, choice) ==
    IF <<scorer, query, choice>> \in DOMAIN ScoreMemo
    THEN ScoreMemo[<<scorer, query, choice>>]
    ELSE Score(scorer, query, choice)

\* the result cap the code passes to process.extract
extract_limit == 10

\* process.extract(query, choices, scorer, limit=10): (choice, score, index),
\* best score first, equal scores in the order of choices
Extract(query, choices, scorer) ==
    SliceTo(SortedByScore([i \in DOMAIN choices |->
                             <<choices[i], score_of(scorer, query, choices[i]), i - 1>>]),
            extract_limit)

(***************************************************************************)
(* State                                                                   *)
(***************************************************************************)
VARIABLES
    all_player_names,  \* the roster list every call is given
    player_teams,      \* the player -> team code dict every call is given
    team_info,         \* the team table every call is given
    threshold,         \* run_test_cases' threshold argument
    scorer,            \* run_test_cases' scorer argument
    limit,             \* run_test_cases' limit argument
    hashSeed,          \* the interpreter's string hash seed (decides set order)
    frame,             \* per thread: the locals of its find_player_mentions_fuzzy call
    iteration,         \* run_test_cases: the number of test cases run so far
    teams_mentioned,   \* run_test_cases: the set its own find_team_mentions call returned
    results            \* run_test_cases: its results list, of which the first entry is kept

index == <<all_player_names, player_teams, team_info>>

config == <<threshold, scorer, limit, hashSeed>>

vars == <<all_player_names, player_teams, team_info, threshold, scorer, limit,
          hashSeed, frame, iteration, teams_mentioned, results>>

\* bounds of the model
MaxLimit == 1
MaxVaried == 2
MaxTests == 2
MaxWorkers == 2

\* defaults of find_player_mentions_fuzzy
default_threshold == 30
default_limit == 5
\* score boost for players on mentioned teams
team_boost == 20

Main == 0
Workers == 1..MaxWorkers
Threads == {Main} \cup Workers

(***************************************************************************)
(* find_team_mentions                                                      *)
(***************************************************************************)
\* mutant: the set is a module-level one, still holding the last call's codes
StaleMentionedTeams == teams_mentioned

\* mentioned_teams = set()
NewMentionedTeams == {}

\* mutant: a shared location is settled for the Lakers instead of adding both teams
TeamAddsGuessing(team_code, info, tweet_text) ==
    IF InLowerTweet(lower(info.full_name), tweet_text) THEN {team_code}
    ELSE IF InLowerTweet(lower(info.location), tweet_text)
    THEN IF lower(info.location) = "los angeles"
         THEN IF InLowerTweet("clippers", tweet_text) THEN {"LAC"} ELSE {"LAL"}
         ELSE {team_code}
    ELSE IF InLowerTweet(lower(info.nickname), tweet_text) THEN {team_code}
    ELSE IF InLowerTweet(lower(team_code), tweet_text) THEN {team_code}
    ELSE IF \E i \in DOMAIN info.alternates :
                InLowerTweet(lower(info.alternates[i]), tweet_text)
         THEN {team_code}
         ELSE {}

\* what one iteration of the loop over team_info.items() adds
TeamAdds(team_code, info, tweet_text) ==
    IF InLowerTweet(lower(info.full_name), tweet_text) THEN {team_code}
    ELSE IF InLowerTweet(lower(info.location), tweet_text)
    THEN IF lower(info.location) = "los angeles"
         THEN IF InLowerTweet("lakers", tweet_text) THEN {"LAL"}
              ELSE IF InLowerTweet("clippers", tweet_text) THEN {"LAC"}
              ELSE {team_code}
         ELSE {team_code}
    ELSE IF InLowerTweet(lower(info.nickname), tweet_text) THEN {team_code}
    ELSE IF InLowerTweet(lower(team_code), tweet_text) THEN {team_code}
    ELSE IF \E i \in DOMAIN info.alternates :
                InLowerTweet(lower(info.alternates[i]), tweet_text)
         THEN {team_code}
         ELSE {}

find_team_mentions(tweet_text, teams) ==
    NewMentionedTeams
    \cup UNION {TeamAdds(c, teams[c], tweet_text) : c \in DOMAIN teams}

(***************************************************************************)
(* find_player_mentions_fuzzy, stage by stage.  A frame holds the locals   *)
(* of one call; pc is the stage the call is about to run.                  *)
(***************************************************************************)
EmptyFrame ==
    [pc |-> "idle", tweet_text |-> "", mentioned_teams |-> {},
     matched_players |-> {}, player_scores |-> << >>, words |-> << >>,
     player_info |-> << >>, nicknames |-> << >>, all_matches |-> << >>,
     sorted_matches |-> << >>, result |-> << >>, overlapped |-> FALSE,
     lexical_scores |-> << >>, merged_scores |-> << >>, boosted_scores |-> << >>]

\* the call: the arguments are bound
Call(f, tweet) == [f EXCEPT !.pc = "teams", !.tweet_text = tweet]

\* mentioned_teams = find_team_mentions(tweet_text, team_info)
StageTeams(f) ==
    [f EXCEPT !.pc = "init",
              !.mentioned_teams = find_team_mentions(f.tweet_text, team_info)]

\* mutant: the candidate set of the thread's previous call is used again
StaleMatchedPlayers(f) == f.matched_players

\* matched_players = set()
NewMatchedPlayers(f) == {}

\* player_scores = {}
NewPlayerScores(f) == << >>

StageInit(f) ==
    [f EXCEPT !.pc = "index",
              !.matched_players = NewMatchedPlayers(f),
              !.player_scores = NewPlayerScores(f),
              !.words = words_of(f.tweet_text),
              !.player_info = << >>,
              !.nicknames = << >>,
              !.all_matches = << >>,
              !.sorted_matches = << >>,
              !.result = << >>,
              !.lexical_scores = << >>,
              !.merged_scores = << >>,
              !.boosted_scores = << >>]

RECURSIVE BuildPlayerInfo(_, _, _)
\* the loop over all_player_names: the last name's list, then the first name's
BuildPlayerInfo(names, i, info) ==
    IF i > Len(names) THEN info
    ELSE LET name == names[i]
             withLast == Put(info, last_name(name),
                             Append(Get(info, last_name(name), << >>), name))
             withFirst == Put(withLast, first_name(name),
                              Append(Get(withLast, first_name(name), << >>), name))
         IN BuildPlayerInfo(names, i + 1, withFirst)

\* the nickname dict: nickname -> [name], for the roster names the code knows
BuildNicknames(names) ==
    [k \in UNION {NicknamesOf(n) : n \in Range(names)} |->
        <<CHOOSE n \in Range(names) : k \in NicknamesOf(n)>>]

StageIndex(f) ==
    [f EXCEPT !.pc = "nick",
              !.player_info = BuildPlayerInfo(all_player_names, 1, << >>),
              !.nicknames = BuildNicknames(all_player_names)]

\* every player of hit gets score v, whatever it had
SetScores(scores, hit, v) ==
    [q \in (DOMAIN scores) \cup hit |-> IF q \in hit THEN v ELSE scores[q]]

\* mutant: a name hit is added to the score a nickname hit gave
KeepOrSetScoresAdding(scores, hit, v) ==
    [q \in (DOMAIN scores) \cup hit |->
        IF q \notin hit THEN scores[q]
        ELSE IF q \in DOMAIN scores THEN scores[q] + v ELSE v]

\* player_scores[player] = player_scores.get(player, 80)
KeepOrSetScores(scores, hit, v) ==
    [q \in (DOMAIN scores) \cup hit |-> IF q \in DOMAIN scores THEN scores[q] ELSE v]

\* for nickname, players in nicknames.items(): if nickname in tweet_text.lower()
NicknameHits(f) ==
    UNION {Range(f.nicknames[k]) :
             k \in {k \in DOMAIN f.nicknames : InLowerTweet(k, f.tweet_text)}}

StageNick(f) ==
    [f EXCEPT !.pc = "words",
              !.matched_players = @ \cup NicknameHits(f),
              !.player_scores = SetScores(@, NicknameHits(f), 90)]

\* for word in words: if word in player_info
WordHits(f) ==
    UNION {Range(f.player_info[w]) : w \in Range(f.words) \cap DOMAIN f.player_info}

StageWords(f) ==
    [f EXCEPT !.pc = "bigrams",
              !.matched_players = @ \cup WordHits(f),
              !.player_scores = KeepOrSetScores(@, WordHits(f), 80)]

\* two_words = words[i] + " " + words[i + 1], looked up in nicknames
BigramHits(f) ==
    UNION {Range(f.nicknames[k]) :
             k \in {f.words[i] \o " " \o f.words[i + 1] : i \in 1..(Len(f.words) - 1)}
                   \cap DOMAIN f.nicknames}

StageBigrams(f) ==
    LET scores == SetScores(f.player_scores, BigramHits(f), 90)
    IN [f EXCEPT !.pc = "extract",
                 !.matched_players = @ \cup BigramHits(f),
                 !.player_scores = scores,
                 !.lexical_scores = scores]

\* mutant: the best match is read from the result (all_matches[0]), an
\* IndexError when the scorer returned nothing
StageExtractReadingBest(f) ==
    IF scorer = "raising" \/ Extract(f.tweet_text, all_player_names, scorer) = << >>
    THEN [f EXCEPT !.pc = "raised"]
    ELSE [f EXCEPT !.pc = "merge",
                   !.all_matches = Extract(f.tweet_text, all_player_names, scorer)]

\* all_matches = process.extract(...): a scorer that throws ends the call
StageExtract(f) ==
    IF scorer = "raising" THEN [f EXCEPT !.pc = "raised"]
    ELSE [f EXCEPT !.pc = "merge",
                   !.all_matches = Extract(f.tweet_text, all_player_names, scorer)]

\* mutant: lexical and fuzzy evidence are added up
MergeScoreSum(existing, score) == existing + score

\* player_scores[name] = max(player_scores.get(name, 0), score)
MergeScore(existing, score) == Max(existing, score)

\* mutant: the threshold test is lost (score >= 0)
MeetsThresholdAlways(score) == score >= 0

\* if score >= threshold
MeetsThreshold(score) == score >= threshold

RECURSIVE MergeMatches(_, _, _)
\* for name, score, _ in all_matches: if score >= threshold
MergeMatches(matches, i, f) ==
    IF i > Len(matches) THEN f
    ELSE LET name == matches[i][1]
             score == matches[i][2]
         IN IF MeetsThreshold(score)
            THEN MergeMatches(matches, i + 1,
                     [f EXCEPT !.matched_players = @ \cup {name},
                               !.player_scores =
                                   Put(@, name, MergeScore(Get(@, name, 0), score))])
            ELSE MergeMatches(matches, i + 1, f)

StageMerge(f) ==
    LET g == MergeMatches(f.all_matches, 1, f)
    IN [g EXCEPT !.pc = "boost", !.merged_scores = g.player_scores]

\* mutant: the team boost is never applied
BoostedNever(f) == {}

\* mutant: every candidate with a team is boosted, mentioned or not
BoostedAnyTeam(f) ==
    IF f.mentioned_teams = {} THEN {}
    ELSE {q \in f.matched_players : q \in DOMAIN player_teams}

\* the players the team boost is applied to
Boosted(f) ==
    IF f.mentioned_teams = {} THEN {}
    ELSE {q \in f.matched_players :
            q \in DOMAIN player_teams /\ player_teams[q] \in f.mentioned_teams}

\* mutant: the team boost stage is skipped
StageBoostSkipped(f) == [f EXCEPT !.pc = "sort", !.boosted_scores = f.player_scores]

\* player_scores[player] += team_boost (a KeyError when the player has no score)
StageBoost(f) ==
    IF ~(Boosted(f) \subseteq DOMAIN f.player_scores) THEN [f EXCEPT !.pc = "raised"]
    ELSE LET scores == [q \in DOMAIN f.player_scores |->
                          IF q \in Boosted(f) THEN f.player_scores[q] + team_boost
                          ELSE f.player_scores[q]]
         IN [f EXCEPT !.pc = "sort",
                      !.player_scores = scores,
                      !.boosted_scores = scores]

\* mutant: the order of a set changes from call to call
HashKeyPerCall(name) ==
    LET names == RosterBig \o <<"Seth Curry", "Dell Curry">>
    IN ((CHOOSE i \in DOMAIN names : names[i] = name) * (hashSeed + iteration)) % 17

\* the place of a name in the hash table of a set of strings
HashKey(name) ==
    LET names == RosterBig \o <<"Seth Curry", "Dell Curry">>
    IN ((CHOOSE i \in DOMAIN names : names[i] = name) * hashSeed) % 17

RECURSIVE IterationOrder(_)
\* for name in matched_players: the order a set is iterated in
IterationOrder(S) ==
    IF S = {} THEN << >>
    ELSE LET m == CHOOSE a \in S : \A b \in S : HashKey(a) <= HashKey(b)
         IN <<m>> \o IterationOrder(S \ {m})

\* sorted([(name, player_scores.get(name, 0)) for name in matched_players], ...)
SortMatches(f) ==
    LET order == IterationOrder(f.matched_players)
    IN SortedByScore([i \in DOMAIN order |->
                        <<order[i], Get(f.player_scores, order[i], 0)>>])

StageSort(f) == [f EXCEPT !.pc = "ambig", !.sorted_matches = SortMatches(f)]

\* same_name_players of the player at place i of sorted_matches
SameNamePlayers(matches, i) ==
    SelectSeq([j \in DOMAIN matches |-> matches[j][1]],
              LAMBDA other : other # matches[i][1]
                             /\ last_name(other) = last_name(matches[i][1]))

TeamMentioned(f, player) ==
    player \in DOMAIN player_teams /\ player_teams[player] \in f.mentioned_teams

TeamNotMentioned(f, player) ==
    player \in DOMAIN player_teams /\ player_teams[player] \notin f.mentioned_teams

RECURSIVE Penalize(_, _, _, _)
\* for other_player in same_name_players: player_scores[other_player] -= 10
Penalize(f, others, j, scores) ==
    IF j > Len(others) THEN scores
    ELSE Penalize(f, others, j + 1,
                  IF TeamNotMentioned(f, others[j])
                  THEN [scores EXCEPT ![others[j]] = @ - 10]
                  ELSE scores)

RECURSIVE Disambiguate(_, _, _)
\* for i, (player, score) in enumerate(sorted_matches)
Disambiguate(f, i, scores) ==
    IF i > Len(f.sorted_matches) THEN scores
    ELSE LET player == f.sorted_matches[i][1]
             others == SameNamePlayers(f.sorted_matches, i)
             own == IF others # << >> /\ TeamMentioned(f, player)
                    THEN [scores EXCEPT ![player] = @ + 30]
                    ELSE scores
         IN Disambiguate(f, i + 1,
                         IF others # << >> THEN Penalize(f, others, 1, own) ELSE own)

\* the players whose score the ambiguity handling writes
Adjusted(f) ==
    {f.sorted_matches[i][1] : i \in
        {i \in DOMAIN f.sorted_matches :
            /\ SameNamePlayers(f.sorted_matches, i) # << >>
            /\ f.sorted_matches[i][1] \in DOMAIN player_teams}}

\* mutant: ambiguity is handled without team context too
AmbiguityHandledAlways(f) == Len(f.sorted_matches) > 1

\* if len(sorted_matches) > 1 and mentioned_teams
AmbiguityHandled(f) == Len(f.sorted_matches) > 1 /\ f.mentioned_teams # {}

\* mutant: the ranking is not sorted again after the scores were adjusted
ResortSkipped(g) == g.sorted_matches

\* Re-sort after adjusting scores
Resort(g) == SortMatches(g)

\* the ambiguity handling: adjust, then sort again
StageAmbig(f) ==
    IF AmbiguityHandled(f)
    THEN IF ~(Adjusted(f) \subseteq DOMAIN f.player_scores)
         THEN [f EXCEPT !.pc = "raised"]
         ELSE LET g == [f EXCEPT !.player_scores = Disambiguate(f, 1, f.player_scores)]
              IN [g EXCEPT !.pc = "return", !.sorted_matches = Resort(g)]
    ELSE [f EXCEPT !.pc = "return"]

\* mutant: the slice keeps one match too many
TopMatchesOffByOne(sorted_matches, n) ==
    LET top == SliceTo(sorted_matches, n + 1)
    IN [i \in DOMAIN top |-> top[i][1]]

\* result = [name for name, _ in sorted_matches[:limit]]
TopMatches(sorted_matches, n) ==
    LET top == SliceTo(sorted_matches, n)
    IN [i \in DOMAIN top |-> top[i][1]]

StageReturn(f) ==
    [f EXCEPT !.pc = "returned", !.result = TopMatches(f.sorted_matches, limit)]

Running == {"teams", "init", "index", "nick", "words", "bigrams", "extract",
            "merge", "boost", "sort", "ambig", "return"}

\* the next stage of a call
Step(f) ==
    CASE f.pc = "teams" -> StageTeams(f)
      [] f.pc = "init" -> StageInit(f)
      [] f.pc = "index" -> StageIndex(f)
      [] f.pc = "nick" -> StageNick(f)
      [] f.pc = "words" -> StageWords(f)
      [] f.pc = "bigrams" -> StageBigrams(f)
      [] f.pc = "extract" -> StageExtract(f)
      [] f.pc = "merge" -> StageMerge(f)
      [] f.pc = "boost" -> StageBoost(f)
      [] f.pc = "sort" -> StageSort(f)
      [] f.pc = "ambig" -> StageAmbig(f)
      [] f.pc = "return" -> StageReturn(f)

RECURSIVE RunToEnd(_)
\* a call run from its current stage to its return or its exception
RunToEnd(f) == IF f.pc \in Running THEN RunToEnd(Step(f)) ELSE f

\* find_player_mentions_fuzzy(tweet, ...) called in a thread whose last frame is f
find_player_mentions_fuzzy(f, tweet) == RunToEnd(Call(f, tweet))

(***************************************************************************)
(* The runs: run_test_cases resolves tweet after tweet in the main thread  *)
(* (Spec); worker threads each resolve one tweet against the same roster,  *)
(* player-team dict and team table, stage by stage (SpecThreads).          *)
(***************************************************************************)
Thresholds == {default_threshold, 80}

Limits == (0..MaxLimit) \cup {default_limit}

HashSeeds == {1, 16}

\* the arguments of the driver's own run
BaseArgs ==
    [roster |-> RosterCurry, teams |-> PlayerTeamsKnown,
     table |-> TeamTable({"LAL", "LAC", "PHI", "NYK", "GSW"}),
     threshold |-> default_threshold, scorer |-> "token_set_ratio",
     limit |-> default_limit, seed |-> 1]

AllArgs ==
    [roster : Rosters, teams : PlayerTeamMaps, table : TeamTables,
     threshold : Thresholds, scorer : Scorers, limit : Limits, seed : HashSeeds]

\* the number of arguments in which a differs from the driver's run
Varied(a) ==
    Cardinality({k \in DOMAIN BaseArgs : a[k] # BaseArgs[k]})

\* the runs modelled: those that vary at most MaxVaried arguments at once
RunArgs == {a \in AllArgs : Varied(a) <= MaxVaried}

\* the runs modelled with worker threads: the driver's run, with each scorer
\* and each hash seed
ThreadArgs == {a \in AllArgs : \A k \in DOMAIN BaseArgs \ {"scorer", "seed"} :
                                  a[k] = BaseArgs[k]}

ThreadTexts == {TweetJames, TweetCurry}

InitWith(args) ==
    /\ \E a \in args :
        /\ all_player_names = a.roster
        /\ player_teams = a.teams
        /\ team_info = a.table
        /\ threshold = a.threshold
        /\ scorer = a.scorer
        /\ limit = a.limit
        /\ hashSeed = a.seed
    /\ frame = [t \in Threads |-> EmptyFrame]
    /\ iteration = 0
    /\ teams_mentioned = {}
    /\ results = << >>

Init == InitWith(RunArgs)

InitThreads == InitWith(ThreadArgs)

\* one iteration of run_test_cases: its own find_team_mentions call, then the
\* find_player_mentions_fuzzy call; an exception of the call ends the run
RunTestCase(tweet) ==
    /\ iteration < MaxTests
    /\ frame[Main].pc \in {"idle", "returned"}
    /\ iteration' = iteration + 1
    /\ LET f == find_player_mentions_fuzzy(frame[Main], tweet)
           mentioned == find_team_mentions(tweet, team_info)
       IN /\ teams_mentioned' = mentioned
          /\ frame' = [frame EXCEPT ![Main] = f]
          /\ results' =
                IF f.pc = "returned" /\ results = << >>
                THEN Append(results, [tweet |-> tweet, matches |-> f.result,
                                      teams_mentioned |-> mentioned])
                ELSE results
    /\ UNCHANGED <<index, config>>

Next == \E tweet \in Texts : RunTestCase(tweet)

Spec == Init /\ [][Next]_vars

\* a worker thread calls find_player_mentions_fuzzy
ThreadCall(t, tweet) ==
    /\ frame[t].pc = "idle"
    /\ frame' = [u \in Threads |->
                   IF u = t
                   THEN [Call(frame[t], tweet) EXCEPT
                            !.overlapped = \E v \in Workers : frame[v].pc \in Running]
                   ELSE IF frame[u].pc \in Running
                        THEN [frame[u] EXCEPT !.overlapped = TRUE]
                        ELSE frame[u]]
    /\ UNCHANGED <<index, config, iteration, teams_mentioned, results>>

\* mutant: the candidate set is one set shared by every call
SharedCandidates(t) ==
    [frame[t] EXCEPT !.matched_players = UNION {frame[u].matched_players : u \in Workers}]

\* the locals the call of thread t works on: its own
Locals(t) == frame[t]

\* mutant: building the name index consumes the roster list (pop)
ThreadStepPoppingRoster(t) ==
    /\ frame[t].pc \in Running
    /\ frame' = [frame EXCEPT ![t] = Step(Locals(t))]
    /\ all_player_names' = IF frame[t].pc = "index" THEN << >> ELSE all_player_names
    /\ UNCHANGED <<player_teams, team_info, config, iteration, teams_mentioned, results>>

\* a worker thread runs the next stage of its call
ThreadStep(t) ==
    /\ frame[t].pc \in Running
    /\ frame' = [frame EXCEPT ![t] = Step(Locals(t))]
    /\ UNCHANGED <<index, config, iteration, teams_mentioned, results>>

NextThreads ==
    \E t \in Workers :
        \/ \E tweet \in ThreadTexts : ThreadCall(t, tweet)
        \/ ThreadStep(t)

SpecThreads == InitThreads /\ [][NextThreads]_vars

(***************************************************************************)
(* The claims                                                              *)
(***************************************************************************)
Ended == {"returned", "raised"}

AfterLexical == {"extract", "merge", "boost", "sort", "ambig", "return"} \cup Ended

AfterMerge == {"boost", "sort", "ambig", "return", "returned"}

Names(seq) == {seq[i][1] : i \in DOMAIN seq}

Pos(seq, e) == CHOOSE i \in DOMAIN seq : seq[i] = e

\* C1: the list a call returns is never longer than limit, for every tweet,
\* roster and limit (a limit is a count: 0 or more)
ResultWithinLimit ==
    \A t \in Threads :
        frame[t].pc = "returned" => Len(frame[t].result) <= limit

\* C1 witness: a call returned with more candidates than limit, cut to limit
TruncatedToLimit ==
    \E t \in Threads :
        /\ frame[t].pc = "returned"
        /\ limit > 0
        /\ Len(frame[t].sorted_matches) > limit
        /\ Len(frame[t].result) = limit

\* the fuzzy scores of name q that reach the threshold
KeptFuzzy(f, q) == {m[2] : m \in {m \in Range(f.all_matches) : m[1] = q /\ m[2] >= threshold}}

\* C2: before the team boost every candidate's score is the maximum of its
\* lexical score (if it has one) and its fuzzy score (if that reaches the
\* threshold), and never their sum
MergeIsMax ==
    \A t \in Threads :
        LET f == frame[t]
        IN f.pc \in AfterMerge =>
            /\ DOMAIN f.merged_scores =
                 (DOMAIN f.lexical_scores) \cup {q \in Names(f.all_matches) : KeptFuzzy(f, q) # {}}
            /\ \A q \in DOMAIN f.merged_scores :
                 LET hasLex == q \in DOMAIN f.lexical_scores
                     fuzzy == KeptFuzzy(f, q)
                 IN /\ hasLex /\ fuzzy = {} => f.merged_scores[q] = f.lexical_scores[q]
                    /\ ~hasLex => \E s \in fuzzy : f.merged_scores[q] = s
                    /\ hasLex /\ fuzzy # {} =>
                         \E s \in fuzzy :
                            /\ f.merged_scores[q] = Max(f.lexical_scores[q], s)
                            /\ f.merged_scores[q] # f.lexical_scores[q] + s

\* C2 witness: a candidate with a lexical hit and a higher fuzzy score, and a
\* candidate whose fuzzy score was discarded
MergedBothKinds ==
    \E t \in Threads :
        LET f == frame[t]
        IN /\ f.pc = "returned"
           /\ \E q \in DOMAIN f.lexical_scores :
                \E s \in KeptFuzzy(f, q) : s > f.lexical_scores[q]
           /\ \E q \in DOMAIN f.lexical_scores :
                /\ KeptFuzzy(f, q) = {}
                /\ q \in Names(f.all_matches)

\* the scenario of C3: LeBron James (LAL) and James Harden (PHI) on the roster,
\* "Lakers" a name of LAL, and the tweet of the driver's team-context test
JamesScenario(f) ==
    /\ f.tweet_text = "James scored 30 in the Lakers win over the Knicks"
    /\ {"LeBron James", "James Harden"} \subseteq Range(all_player_names)
    /\ {"LeBron James", "James Harden"} \subseteq DOMAIN player_teams
    /\ player_teams["LeBron James"] = "LAL"
    /\ player_teams["James Harden"] = "PHI"
    /\ "LAL" \in DOMAIN team_info
    /\ team_info["LAL"].nickname = "Lakers"

\* C3: in that scenario LeBron James ends with a strictly higher score than
\* James Harden and stands strictly before him in the ranking and in the
\* returned list
LeBronAboveHarden ==
    \A t \in Threads :
        LET f == frame[t]
            ranking == [i \in DOMAIN f.sorted_matches |-> f.sorted_matches[i][1]]
        IN f.pc = "returned" /\ JamesScenario(f) =>
            /\ {"LeBron James", "James Harden"} \subseteq DOMAIN f.player_scores
            /\ f.player_scores["LeBron James"] > f.player_scores["James Harden"]
            /\ Pos(ranking, "LeBron James") < Pos(ranking, "James Harden")
            /\ limit >= 1 => "LeBron James" \in Range(f.result)
            /\ "James Harden" \in Range(f.result) =>
                 Pos(f.result, "LeBron James") < Pos(f.result, "James Harden")

\* C3 witness: the scenario resolved, both players returned
JamesScenarioResolved ==
    \E t \in Threads :
        /\ frame[t].pc = "returned"
        /\ JamesScenario(frame[t])
        /\ {"LeBron James", "James Harden"} \subseteq Range(frame[t].result)

\* the case of C4: LAL and LAC both located at Los Angeles, and a tweet that
\* names Los Angeles but neither the Lakers nor the Clippers
SharedLocationCase(tweet) ==
    /\ {"LAL", "LAC"} \subseteq DOMAIN team_info
    /\ team_info["LAL"].location = "Los Angeles"
    /\ team_info["LAC"].location = "Los Angeles"
    /\ InLowerTweet("los angeles", tweet)
    /\ ~InLowerTweet("lakers", tweet)
    /\ ~InLowerTweet("clippers", tweet)

\* C4: in that case find_team_mentions returns both LAL and LAC
SharedLocationBothTeams ==
    /\ \A t \in Threads :
         frame[t].pc \in {"init", "index", "nick", "words", "bigrams"} \cup AfterLexical
         /\ SharedLocationCase(frame[t].tweet_text)
         => {"LAL", "LAC"} \subseteq frame[t].mentioned_teams
    /\ iteration >= 1 /\ SharedLocationCase(frame[Main].tweet_text)
         => {"LAL", "LAC"} \subseteq teams_mentioned

\* C4 witness: the driver resolved such a tweet
SharedLocationResolved ==
    /\ iteration >= 1
    /\ SharedLocationCase(frame[Main].tweet_text)
    /\ teams_mentioned = frame[Main].mentioned_teams

\* the case of C5: no word of the tweet is a first or last name of the roster,
\* no registered nickname occurs in it, and no roster name scores the threshold
NullCase(tweet) ==
    /\ scorer # "raising"
    /\ \A i \in DOMAIN all_player_names :
         LET n == all_player_names[i]
         IN /\ first_name(n) \notin Range(words_of(tweet))
            /\ last_name(n) \notin Range(words_of(tweet))
            /\ \A k \in NicknamesOf(n) : ~InLowerTweet(k, tweet)
            /\ score_of(scorer, tweet, n) < threshold

\* C5: in that case the call returns, without an exception, the empty list
NullResultEmpty ==
    \A t \in Threads :
        frame[t].pc \in Ended /\ NullCase(frame[t].tweet_text) =>
            frame[t].pc = "returned" /\ frame[t].result = << >>

\* C5 witness: the null tweet of the tests resolved with room for matches
NullTweetResolved ==
    \E t \in Threads :
        /\ frame[t].pc = "returned"
        /\ frame[t].tweet_text = "just watched a great game with no particular star players"
        /\ NullCase(frame[t].tweet_text)
        /\ limit > 0

CollectedTeams(tweet) ==
    UNION {TeamAdds(c, team_info[c], tweet) : c \in DOMAIN team_info}

FullNameLexicalHit ==
    \A t \in Threads :
        frame[t].pc \in AfterLexical =>
            \A i \in DOMAIN all_player_names :
                Contains(frame[t].tweet_text, all_player_names[i]) =>
                    /\ all_player_names[i] \in DOMAIN frame[t].lexical_scores
                    /\ frame[t].lexical_scores[all_player_names[i]] >= 70

\* the maps a call writes
MapsOf(f) == <<f.matched_players, f.player_scores, f.player_info, f.nicknames,
               f.mentioned_teams>>

\* C9: no step of a call, returning or raising, changes the roster list, the
\* player-team dict or the team table, and the maps a step writes are those
\* of its own call
SharedArgumentsUnchanged ==
    [][/\ all_player_names' = all_player_names
       /\ player_teams' = player_teams
       /\ team_info' = team_info
       /\ Cardinality({t \in Threads : MapsOf(frame'[t]) # MapsOf(frame[t])}) <= 1]_vars

\* C9 witness: a call ended by an exception after it wrote its maps, while
\* another call is still running
RaisedAfterWriting ==
    \E t, u \in Workers :
        /\ frame[t].pc = "raised"
        /\ frame[t].matched_players # {}
        /\ frame[u].pc \in Running

\* C10: whatever the interleaving, a call ends as it ends when run alone
InterleavedAsAlone ==
    \A t \in Workers :
        frame[t].pc \in Ended =>
            LET alone == find_player_mentions_fuzzy(EmptyFrame, frame[t].tweet_text)
            IN /\ frame[t].pc = alone.pc
               /\ frame[t].result = alone.result
               /\ frame[t].player_scores = alone.player_scores

\* C10 witness: a call returned players although another call, on another
\* tweet, ran while it was running
ReturnedWhileOverlapped ==
    \E t, u \in Workers :
        /\ frame[t].pc = "returned"
        /\ frame[t].overlapped
        /\ frame[t].result # << >>
        /\ frame[u].pc \in Running \cup {"returned"}
        /\ frame[u].tweet_text # frame[t].tweet_text
        /\ frame[u].overlapped

\* the player-team dict names a team code that is no key of the team table,
\* or a player that is not on the roster
DanglingReference ==
    \E q \in DOMAIN player_teams :
        player_teams[q] \notin DOMAIN team_info \/ q \notin Range(all_player_names)

\* C11: with such a reference the program fails before any resolution result
\* is produced: no call returns a list and no result is logged
DanglingReferenceRejected ==
    DanglingReference =>
        /\ \A t \in Threads : frame[t].pc # "returned"
        /\ results = << >>

\* the candidates that share the lower-cased last name of candidate q
SurnameGroup(f, q) == {p \in f.matched_players : last_name(p) = last_name(q)}

\* C12: with a non-empty detected-team set, in every group of two or more
\* candidates sharing a last name, a member whose team is detected ends 30
\* above its boosted score, a member whose team is known but not detected
\* ends 10 below it, and a member with no known team keeps it
CollisionAdjustedOnce ==
    \A t \in Threads :
        LET f == frame[t]
        IN f.pc = "returned" /\ f.mentioned_teams # {} =>
            \A q \in f.matched_players :
                Cardinality(SurnameGroup(f, q)) >= 2 =>
                    f.player_scores[q] = f.boosted_scores[q] +
                        (IF q \notin DOMAIN player_teams THEN 0
                         ELSE IF player_teams[q] \in f.mentioned_teams THEN 30
                         ELSE -10)

AfterBoost == {"sort", "ambig", "return", "returned"}

\* the team of candidate q is in the detected-team set of the call
OnDetectedTeam(f, q) ==
    /\ f.mentioned_teams # {}
    /\ q \in DOMAIN player_teams
    /\ player_teams[q] \in f.mentioned_teams

\* the lexical score of q, if any, and its fuzzy scores that reach the threshold
Evidence(f, q) ==
    (IF q \in DOMAIN f.lexical_scores THEN {f.lexical_scores[q]} ELSE {}) \cup KeptFuzzy(f, q)

\* C13: the team boost adds exactly 20, once, to the merged score of every
\* candidate whose team is in the detected set (its score is then the maximum
\* of its lexical and thresholded fuzzy score, plus 20) and leaves every other
\* candidate's score as merged
TeamBoostOnce ==
    \A t \in Threads :
        LET f == frame[t]
        IN f.pc \in AfterBoost =>
            /\ DOMAIN f.boosted_scores = DOMAIN f.merged_scores
            /\ \A q \in DOMAIN f.boosted_scores :
                 IF OnDetectedTeam(f, q)
                 THEN /\ f.boosted_scores[q] = f.merged_scores[q] + 20
                      /\ \E s \in Evidence(f, q) :
                            /\ \A r \in Evidence(f, q) : r <= s
                            /\ f.boosted_scores[q] = s + 20
                 ELSE f.boosted_scores[q] = f.merged_scores[q]

\* C13 witness: a call with a detected team returned; one candidate was
\* boosted, one has a team that is not detected, one has no team
BoostedAndUnboosted ==
    \E t \in Threads :
        LET f == frame[t]
        IN /\ f.pc = "returned"
           /\ f.mentioned_teams # {}
           /\ \E q \in f.matched_players : OnDetectedTeam(f, q)
           /\ \E q \in f.matched_players :
                q \in DOMAIN player_teams /\ player_teams[q] \notin f.mentioned_teams
           /\ \E q \in f.matched_players : q \notin DOMAIN player_teams

\* C14: with an empty detected-team set no boost and no penalty is applied:
\* every candidate ends with its merged score, is ranked with that score, and
\* the members of a same-surname group are all returned unless the list is
\* full
NoTeamContextUnresolved ==
    \A t \in Threads :
        LET f == frame[t]
        IN f.pc = "returned" /\ f.mentioned_teams = {} =>
            /\ f.player_scores = f.merged_scores
            /\ f.boosted_scores = f.merged_scores
            /\ \A q \in f.matched_players :
                 <<q, f.merged_scores[q]>> \in Range(f.sorted_matches)
            /\ Len(f.result) = Min(Len(f.sorted_matches), limit)
            /\ \A q \in f.matched_players :
                 Cardinality(SurnameGroup(f, q)) >= 2 /\ q \notin Range(f.result)
                 => Len(f.result) = limit

\* C14 witness: a tweet that names no team returned the three players of one
\* surname, at least one of them with a known team
SurnameGroupUnresolved ==
    \E t \in Threads :
        LET f == frame[t]
        IN /\ f.pc = "returned"
           /\ f.mentioned_teams = {}
           /\ \E q \in f.matched_players :
                /\ Cardinality(SurnameGroup(f, q)) >= 3
                /\ SurnameGroup(f, q) \subseteq Range(f.result)
                /\ q \in DOMAIN player_teams

\* C15: the returned list is ordered by final score, highest first, and is a
\* top slice of the candidates: no candidate left out has a final score above
\* that of a returned one
RankedTopSlice ==
    \A t \in Threads :
        LET f == frame[t]
        IN f.pc = "returned" =>
            /\ Range(f.result) \subseteq f.matched_players
            /\ \A i \in DOMAIN f.result :
                 i + 1 \in DOMAIN f.result =>
                    f.player_scores[f.result[i]] >= f.player_scores[f.result[i + 1]]
            /\ \A q \in f.matched_players \ Range(f.result) :
                 \A r \in Range(f.result) : f.player_scores[q] <= f.player_scores[r]

\* C15 witness: the surname adjustments put a candidate below one it did not
\* rank below before, both are returned, and truncation left a candidate out
ReorderedAndTruncated ==
    \E t \in Threads :
        LET f == frame[t]
        IN /\ f.pc = "returned"
           /\ Len(f.sorted_matches) > Len(f.result)
           /\ \E a, b \in Range(f.result) :
                /\ f.boosted_scores[a] >= f.boosted_scores[b]
                /\ f.player_scores[a] < f.player_scores[b]

\* C16: a team whose own nickname occurs in the lower-cased text is in the set
\* find_team_mentions returns, also when the team shares its location with
\* another team and the location and that team's nickname occur too
OwnNicknameDetected ==
    \A t \in Threads :
        frame[t].pc \in Ended =>
            \A c \in DOMAIN team_info :
                InLowerTweet(lower(team_info[c].nickname), frame[t].tweet_text)
                => c \in frame[t].mentioned_teams

\* the two-word strings made of adjacent word tokens of a tweet
Bigrams(tweet) ==
    {words_of(tweet)[i] \o " " \o words_of(tweet)[i + 1] :
        i \in 1..(Len(words_of(tweet)) - 1)}

\* a nickname of q occurs in the tweet, as text or as two adjacent tokens
NicknameOccurs(tweet, q) ==
    \E k \in NicknamesOf(q) : InLowerTweet(k, tweet) \/ k \in Bigrams(tweet)

\* C17: a candidate reached only through a token equal to its first name has
\* lexical score 70, one reached only through its last name 80, and one
\* reached through a nickname 90
LexicalScoreByAliasKind ==
    \A t \in Threads :
        LET f == frame[t]
            w == Range(words_of(f.tweet_text))
        IN f.pc \in AfterLexical =>
            \A q \in DOMAIN f.lexical_scores :
                /\ NicknameOccurs(f.tweet_text, q) => f.lexical_scores[q] = 90
                /\ ~NicknameOccurs(f.tweet_text, q) /\ first_name(q) \in w
                   /\ last_name(q) \notin w => f.lexical_scores[q] = 70
                /\ ~NicknameOccurs(f.tweet_text, q) /\ last_name(q) \in w
                   /\ first_name(q) \notin w => f.lexical_scores[q] = 80

\* C18: a nickname gives its score-90 hit only as a whole word token of the
\* text (a two-word nickname as two adjacent tokens): a candidate has lexical
\* score 90 only if one of its nicknames is such a token, and a candidate none
\* of whose names or nicknames is a token has no lexical score
NicknameWholeWordOnly ==
    \A t \in Threads :
        LET f == frame[t]
            w == Range(words_of(f.tweet_text))
            asToken(q) == \E k \in NicknamesOf(q) : k \in w \/ k \in Bigrams(f.tweet_text)
        IN f.pc \in AfterLexical =>
            \A q \in DOMAIN f.lexical_scores :
                /\ f.lexical_scores[q] = 90 => asToken(q)
                /\ asToken(q) \/ first_name(q) \in w \/ last_name(q) \in w

\* the hits the three lexical passes have for roster name q, each with the
\* score its pass assigns: nickname found in the text, name token, nickname
\* made of two adjacent tokens
AliasHits(tweet, q) ==
    (IF \E k \in NicknamesOf(q) : InLowerTweet(k, tweet) THEN {<<"nickname", 90>>} ELSE {})
    \cup (IF first_name(q) \in Range(words_of(tweet)) \/ last_name(q) \in Range(words_of(tweet))
          THEN {<<"name", 80>>} ELSE {})
    \cup (IF NicknamesOf(q) \cap Bigrams(tweet) # {} THEN {<<"bigram", 90>>} ELSE {})

RECURSIVE SumOfHits(_)
SumOfHits(hits) ==
    IF hits = {} THEN 0
    ELSE LET h == CHOOSE h \in hits : TRUE IN h[2] + SumOfHits(hits \ {h})

\* C19: after the lexical passes a roster name has a lexical score exactly if
\* a pass hit it, and the score is the maximum of the scores of its hits,
\* whichever pass hit first, and not their sum when there are several
LexicalMaxMerge ==
    \A t \in Threads :
        LET f == frame[t]
        IN f.pc \in AfterLexical =>
            \A i \in DOMAIN all_player_names :
                LET q == all_player_names[i]
                    hits == AliasHits(f.tweet_text, q)
                IN /\ q \in DOMAIN f.lexical_scores <=> hits # {}
                   /\ hits # {} =>
                        /\ \E h \in hits : /\ f.lexical_scores[q] = h[2]
                                           /\ \A g \in hits : g[2] <= h[2]
                        /\ Cardinality(hits) >= 2 => f.lexical_scores[q] # SumOfHits(hits)

\* C19 witness: one candidate was hit by the nickname pass and then by the
\* word pass, another by the word pass and then by the bigram pass only
HitsInBothOrders ==
    \E t \in Threads :
        LET f == frame[t]
        IN /\ f.pc = "returned"
           /\ \E q \in DOMAIN f.lexical_scores :
                AliasHits(f.tweet_text, q) = {<<"nickname", 90>>, <<"name", 80>>}
           /\ \E q \in DOMAIN f.lexical_scores :
                AliasHits(f.tweet_text, q) = {<<"name", 80>>, <<"bigram", 90>>}

\* C20: every returned name has a final score of at least the threshold
ReturnedMeetThreshold ==
    \A t \in Threads :
        LET f == frame[t]
        IN f.pc = "returned" =>
            \A i \in DOMAIN f.result : f.player_scores[f.result[i]] >= threshold

\* C21: every roster name whose similarity score against the text reaches the
\* threshold (equality included) is a candidate after the merge, whatever the
\* size of the roster
EveryMatchIsCandidate ==
    \A t \in Threads :
        LET f == frame[t]
        IN f.pc \in AfterMerge /\ scorer # "raising" =>
            \A i \in DOMAIN all_player_names :
                score_of(scorer, f.tweet_text, all_player_names[i]) >= threshold
                => all_player_names[i] \in DOMAIN f.merged_scores

\* C22: for the empty text the lexical passes give no candidate, and a call
\* whose scorer returns an empty sequence (and does not throw) ends without
\* an exception and returns the empty list
EmptyInputTolerated ==
    \A t \in Threads :
        LET f == frame[t]
        IN /\ f.pc \in AfterLexical /\ f.tweet_text = "" => f.lexical_scores = << >>
           /\ f.pc \in Ended /\ f.tweet_text = "" /\ scorer # "raising"
              /\ Extract(f.tweet_text, all_player_names, scorer) = << >>
              => /\ f.pc = "returned"
                 /\ f.matched_players = {}
                 /\ f.result = << >>

\* C22 witness: the empty text was resolved with room for matches, the scorer
\* returned an empty sequence, and the call returned
EmptyTextResolved ==
    \E t \in Threads :
        /\ frame[t].pc = "returned"
        /\ frame[t].tweet_text = ""
        /\ scorer # "raising"
        /\ frame[t].all_matches = << >>
        /\ limit > 0

\* C23: every team code find_team_mentions returns is a key of the team table
\* it was given
MentionedTeamsAreKeys ==
    /\ teams_mentioned \subseteq DOMAIN team_info
    /\ \A t \in Threads : frame[t].mentioned_teams \subseteq DOMAIN team_info

\* C24: a candidate whose team is detected, with a merged score not below
\* that of a candidate whose team is unknown or not detected, ends with a
\* strictly higher final score and stands before it in the ranking
DetectedTeamNotDemoted ==
    \A t \in Threads :
        LET f == frame[t]
            ranking == [i \in DOMAIN f.sorted_matches |-> f.sorted_matches[i][1]]
        IN f.pc = "returned" =>
            \A a, b \in f.matched_players :
                /\ OnDetectedTeam(f, a)
                /\ ~OnDetectedTeam(f, b)
                /\ f.merged_scores[a] >= f.merged_scores[b]
                => /\ f.player_scores[a] > f.player_scores[b]
                   /\ Pos(ranking, a) < Pos(ranking, b)

\* C24 witness: a returned call with two candidates of one surname and equal
\* merged scores, one on a detected team, the other on a team not detected,
\* and a third candidate with no team
DetectedAboveUndetected ==
    \E t \in Threads :
        LET f == frame[t]
        IN /\ f.pc = "returned"
           /\ \E a, b, c \in f.matched_players :
                /\ OnDetectedTeam(f, a)
                /\ b \in DOMAIN player_teams /\ ~OnDetectedTeam(f, b)
                /\ c \notin DOMAIN player_teams
                /\ b \in SurnameGroup(f, a)
                /\ f.merged_scores[a] = f.merged_scores[b]
                /\ f.merged_scores[a] = f.merged_scores[c]

\* C25: a returned list holds no name twice and only names of the roster
\* list, and every candidate has a score entry whenever a boost or a penalty
\* is applied to it: the candidates and the score entries coincide at every
\* stage, and no call ends with an exception of its own
ResultWellFormed ==
    \A t \in Threads :
        LET f == frame[t]
        IN /\ f.pc = "raised" => scorer = "raising"
           /\ f.pc = "returned" =>
                /\ \A i, j \in DOMAIN f.result : f.result[i] = f.result[j] => i = j
                /\ Range(f.result) \subseteq Range(all_player_names)
                /\ f.matched_players = DOMAIN f.player_scores
                /\ f.matched_players = DOMAIN f.merged_scores
                /\ f.matched_players = DOMAIN f.boosted_scores

\* C25 witness: a call returned several names after a boost raised one
\* candidate's score and a penalty lowered another's
BoostAndPenaltyApplied ==
    \E t \in Threads :
        LET f == frame[t]
        IN /\ f.pc = "returned"
           /\ Len(f.result) >= 2
           /\ \E q \in f.matched_players : f.boosted_scores[q] > f.merged_scores[q]
           /\ \E q \in f.matched_players : f.player_scores[q] < f.boosted_scores[q]
====
